---- MODULE Spec2Model ----
(***************************************************************************)
(* State machine of src/src/App.tsx: the React state of App, the async     *)
(* closures started by handleImageUpload and processImage, and the user    *)
(* events the rendered controls allow.  Every block of synchronous code    *)
(* between two awaits is one action.                                       *)
(***************************************************************************)
EXTENDS Integers, Sequences, FiniteSets, TLC

\* ---------------------------------------------------------------- bounds
MaxPages == 2          \* largest numPages a decoded PDF reports
NumFiles == 2          \* distinct file contents the user can pick
MaxParts == 2          \* longest parts list of a response
MaxRuns == 2           \* cap on simultaneously suspended processImage calls
MaxScan == 3           \* longest parts list of a response in ParseSpec
MaxUploads == 2        \* cap on simultaneously suspended handleImageUpload calls

\* ------------------------------------------------------ program constants
MaxFileSize == 100 * 1024 * 1024

NullMime == "null"
PdfType == "application/pdf"
PngType == "image/png"

\* ------------------------------------------------------------ strings
\* Text is a sequence of one-character strings.
IsSpace(c) == c = " "

RECURSIVE TrimStart(_)
TrimStart(s) ==
  IF s # <<>> /\ IsSpace(Head(s)) THEN TrimStart(Tail(s)) ELSE s

RECURSIVE TrimEnd(_)
TrimEnd(s) ==
  IF s # <<>> /\ IsSpace(s[Len(s)]) THEN TrimEnd(SubSeq(s, 1, Len(s) - 1)) ELSE s

Trim(s) == TrimEnd(TrimStart(s))

\* Values the instruction textarea / quick prompts can hold.
Prompts == { <<>>, <<" ">>, <<" ", "a", " ">> }

\* ------------------------------------------------------------ messages
Msg(kind, page, text) == [kind |-> kind, page |-> page, text |-> text]

NoError == Msg("null", 0, <<>>)
SizeLimitMsg == Msg("size", 0, <<>>)
UnknownPdfMsg == <<"u">>
DefaultEditMsg == Msg("default", 0, <<>>)
NoCanvasMsg == <<"c">>
TypeErrorMsg == <<"t">>
NoneText == <<"n">>

\* err.message values of rejected promises ("" is a missing message)
ErrMessages == { <<"e">>, <<>> }

PdfErrorMsg(m) == Msg("pdf", 0, IF m = <<>> THEN UnknownPdfMsg ELSE m)

PageErrorMsg(page, textResponse) ==
  Msg("page", page, IF textResponse = <<>> THEN NoneText ELSE textResponse)

EditCatchMsg(m) == IF m.kind = "raw" /\ m.text = <<>> THEN DefaultEditMsg ELSE m

RawMsg(m) == Msg("raw", 0, m)

\* ------------------------------------------------------------ data URLs
DataUrl(mime, data) == [null |-> FALSE, mime |-> mime, data |-> data]
NullUrl == [null |-> TRUE, mime |-> "", data |-> <<>>]

\* sourcePages[i].split(',')[1]
Base64Of(url) == url.data

\* ------------------------------------------------------------ files
FileTypes == { PdfType, "image/jpeg", "" }
FileSizes == { MaxFileSize, MaxFileSize + 1 }
Files == [id : 1..NumFiles, size : FileSizes, type : FileTypes]

\* canvas.toDataURL('image/png') of page i of a file
RenderedPage(file, i) == DataUrl(PngType, <<0, file.id, i>>)

\* reader.result after a successful readAsDataURL
ReadDataUrl(file) ==
  DataUrl(IF file.type = "" THEN "application/octet-stream" ELSE file.type,
          <<1, file.id, 1>>)

\* ------------------------------------------------------------ remote service
\* The bytes the service returns for an image it was sent.
Edited(data) == <<2>> \o data

InlinePart(mime, data) ==
  [kind |-> "inlineData", mimeType |-> mime, data |-> data, text |-> <<>>]
TextPart(t) ==
  [kind |-> "text", mimeType |-> "", data |-> <<>>, text |-> t]

\* The parts the service answers a request with: the edited image (without a
\* mimeType of its own) or a text.
PartsFor(req) ==
  { InlinePart("", Edited(req.data)), TextPart(<<"x">>) }

SeqsUpTo(S, n) == UNION { [1..k -> S] : k \in 0..n }

\* candidates |-> FALSE: no candidates[0].content.parts
ResponsesFor(req) ==
  { [candidates |-> FALSE, parts |-> <<>>] } \cup
  { [candidates |-> TRUE, parts |-> ps] : ps \in SeqsUpTo(PartsFor(req), MaxParts) }

\* Variant of ScanParts in which a text part replaces the text collected so far
\* (textResponse = part.text).
RECURSIVE ScanParts_KeepsLastText(_, _)
ScanParts_KeepsLastText(parts, textResponse) ==
  IF parts = <<>>
  THEN [foundImage |-> FALSE, textResponse |-> textResponse, imageUrl |-> NullUrl]
  ELSE LET part == Head(parts) IN
       IF part.kind = "inlineData"
       THEN [foundImage |-> TRUE, textResponse |-> textResponse,
             imageUrl |-> DataUrl(IF part.mimeType = "" THEN PngType ELSE part.mimeType,
                                  part.data)]
       ELSE IF part.text # <<>>
            THEN ScanParts_KeepsLastText(Tail(parts), part.text)
            ELSE ScanParts_KeepsLastText(Tail(parts), textResponse)

\* for (const part of response.candidates[0].content.parts) { ... }
RECURSIVE ScanParts(_, _)
ScanParts(parts, textResponse) ==
  IF parts = <<>>
  THEN [foundImage |-> FALSE, textResponse |-> textResponse, imageUrl |-> NullUrl]
  ELSE LET part == Head(parts) IN
       IF part.kind = "inlineData"
       THEN [foundImage |-> TRUE, textResponse |-> textResponse,
             imageUrl |-> DataUrl(IF part.mimeType = "" THEN PngType ELSE part.mimeType,
                                  part.data)]
       ELSE IF part.text # <<>>
            THEN ScanParts(Tail(parts), textResponse \o part.text)
            ELSE ScanParts(Tail(parts), textResponse)

ParseResponse(response) ==
  IF response.candidates
  THEN ScanParts(response.parts, <<>>)
  ELSE [foundImage |-> FALSE, textResponse |-> <<>>, imageUrl |-> NullUrl]

\* ------------------------------------------------------------ state
VARIABLES sourcePages, sourceMimeType, resultPages, isProcessing, isUploading,
          error, userPrompt, uploads, runs, lastEvent

appState == <<sourcePages, sourceMimeType, resultPages, isProcessing, isUploading,
              error, userPrompt>>
vars == <<sourcePages, sourceMimeType, resultPages, isProcessing, isUploading,
          error, userPrompt, uploads, runs, lastEvent>>

Event(op) == [op |-> op]

Init ==
  /\ sourcePages = <<>>
  /\ sourceMimeType = NullMime
  /\ resultPages = <<>>
  /\ isProcessing = FALSE
  /\ isUploading = FALSE
  /\ error = NoError
  /\ userPrompt = <<>>
  /\ uploads = <<>>
  /\ runs = <<>>
  /\ lastEvent = Event("init")

RemoveAt(s, k) == SubSeq(s, 1, k - 1) \o SubSeq(s, k + 1, Len(s))

\* ------------------------------------------------------------ instruction
setUserPrompt(p) ==
  /\ p # userPrompt
  /\ userPrompt' = p
  /\ lastEvent' = Event("prompt")
  /\ UNCHANGED <<sourcePages, sourceMimeType, resultPages, isProcessing,
                 isUploading, error, uploads, runs>>

\* ------------------------------------------------------------ upload
\* A suspended handleImageUpload call: the file, the await it is parked at and
\* the locals of the PDF loop.
UploadCall(file) ==
  [file |-> file, pc |-> "timer", i |-> 0, numPages |-> 0, pages |-> <<>>]

\* Variant of TooLarge that rejects a file of exactly the limit.
TooLarge_AtLimit(file) == file.size >= MaxFileSize

\* file.size > 100 * 1024 * 1024
TooLarge(file) == file.size > MaxFileSize

\* The drop target is rendered only while no source page is loaded; its
\* onClick opens the file dialog only when !isUploading.  The dialog is modal,
\* so the click and the change event it leads to are one step.
DropTargetRendered == Len(sourcePages) = 0

\* Variant of DropTargetClickable without the !isUploading test.
DropTargetClickable_Always == TRUE

DropTargetClickable == ~isUploading

handleImageUpload(file) ==
  /\ DropTargetRendered
  /\ DropTargetClickable
  /\ Len(uploads) < MaxUploads
  /\ IF TooLarge(file)
     THEN /\ error' = SizeLimitMsg
          /\ lastEvent' = [op |-> "reject", size |-> file.size]
          /\ UNCHANGED <<sourcePages, sourceMimeType, resultPages, isProcessing,
                         isUploading, userPrompt, uploads, runs>>
     ELSE /\ isUploading' = TRUE
          /\ error' = NoError
          /\ resultPages' = <<>>
          /\ sourcePages' = <<>>
          /\ uploads' = Append(uploads, UploadCall(file))
          /\ lastEvent' = [op |-> "upload", size |-> file.size]
          /\ UNCHANGED <<sourceMimeType, isProcessing, userPrompt, runs>>

\* try-block success: setSourcePages(pages); setSourceMimeType('image/png');
\* finally setIsUploading(false)
PdfPublish(k, pages) ==
  /\ sourcePages' = pages
  /\ sourceMimeType' = PngType
  /\ isUploading' = FALSE
  /\ uploads' = RemoveAt(uploads, k)
  /\ lastEvent' = [op |-> "uploadEnd", ok |-> TRUE, call |-> uploads[k]]
  /\ UNCHANGED <<resultPages, isProcessing, error, userPrompt, runs>>

\* Variant of PdfCatch that publishes the pages rasterized before the failure.
PdfCatch_KeepsPages(k, m) ==
  /\ error' = PdfErrorMsg(m)
  /\ sourcePages' = uploads[k].pages
  /\ isUploading' = FALSE
  /\ uploads' = RemoveAt(uploads, k)
  /\ lastEvent' = [op |-> "uploadEnd", ok |-> FALSE, call |-> uploads[k]]
  /\ UNCHANGED <<sourceMimeType, resultPages, isProcessing, userPrompt, runs>>

\* catch (err) { setError(...) } finally { setIsUploading(false) }
PdfCatch(k, m) ==
  /\ error' = PdfErrorMsg(m)
  /\ isUploading' = FALSE
  /\ uploads' = RemoveAt(uploads, k)
  /\ lastEvent' = [op |-> "uploadEnd", ok |-> FALSE, call |-> uploads[k]]
  /\ UNCHANGED <<sourcePages, sourceMimeType, resultPages, isProcessing,
                 userPrompt, runs>>

UploadPark(k, call) ==
  /\ uploads' = [uploads EXCEPT ![k] = call]
  /\ lastEvent' = Event("uploadStep")
  /\ UNCHANGED appState
  /\ UNCHANGED runs

\* The 50ms timer fires: the PDF branch calls file.arrayBuffer(), the image
\* branch creates the FileReader and calls readAsDataURL.
UploadTimer(k) ==
  /\ k \in 1..Len(uploads)
  /\ uploads[k].pc = "timer"
  /\ UploadPark(k, [uploads[k] EXCEPT !.pc =
        IF uploads[k].file.type = PdfType THEN "arrayBuffer" ELSE "readAsDataURL"])

\* file.arrayBuffer() resolves; getDocument is called.
PdfArrayBuffer(k) ==
  /\ k \in 1..Len(uploads)
  /\ uploads[k].pc = "arrayBuffer"
  /\ UploadPark(k, [uploads[k] EXCEPT !.pc = "getDocument"])

\* loadingTask.promise resolves with a document of n >= 1 pages; the loop
\* starts with i = 1.
PdfGetDocument(k, n) ==
  /\ k \in 1..Len(uploads)
  /\ uploads[k].pc = "getDocument"
  /\ n \in 1..MaxPages
  /\ UploadPark(k, [uploads[k] EXCEPT !.pc = "getPage", !.i = 1, !.numPages = n])

\* pdf.getPage(i) resolves; the canvas is created and page.render is called,
\* or getContext('2d') returned null and the loop body throws.
PdfGetPage(k, hasContext) ==
  /\ k \in 1..Len(uploads)
  /\ uploads[k].pc = "getPage"
  /\ IF hasContext
     THEN UploadPark(k, [uploads[k] EXCEPT !.pc = "render"])
     ELSE PdfCatch(k, NoCanvasMsg)

\* Variant of PdfRender whose loop stops one page early (i < pdf.numPages).
PdfRender_StopsEarly(k) ==
  /\ k \in 1..Len(uploads)
  /\ uploads[k].pc = "render"
  /\ LET u == uploads[k]
         pages == Append(u.pages, RenderedPage(u.file, u.i))
     IN IF u.i + 1 < u.numPages
        THEN UploadPark(k, [u EXCEPT !.pc = "getPage", !.i = u.i + 1, !.pages = pages])
        ELSE PdfPublish(k, pages)

\* page.render(...).promise resolves: pages.push(canvas.toDataURL('image/png')),
\* i++, then either the next getPage or the publication of the pages.
PdfRender(k) ==
  /\ k \in 1..Len(uploads)
  /\ uploads[k].pc = "render"
  /\ LET u == uploads[k]
         pages == Append(u.pages, RenderedPage(u.file, u.i))
     IN IF u.i + 1 <= u.numPages
        THEN UploadPark(k, [u EXCEPT !.pc = "getPage", !.i = u.i + 1, !.pages = pages])
        ELSE PdfPublish(k, pages)

\* Any of the awaited promises of the PDF branch rejects with message m.
PdfThrow(k, m) ==
  /\ k \in 1..Len(uploads)
  /\ uploads[k].pc \in {"arrayBuffer", "getDocument", "getPage", "render"}
  /\ PdfCatch(k, m)

\* reader.onloadend: fires after a successful read (result is the data URL)
\* and after a failed one (result is null).
ReaderLoadEnd(k, readOk) ==
  /\ k \in 1..Len(uploads)
  /\ uploads[k].pc = "readAsDataURL"
  /\ sourcePages' = << IF readOk THEN ReadDataUrl(uploads[k].file) ELSE NullUrl >>
  /\ sourceMimeType' = uploads[k].file.type
  /\ isUploading' = FALSE
  /\ uploads' = RemoveAt(uploads, k)
  /\ lastEvent' = [op |-> "uploadEnd", ok |-> readOk, call |-> uploads[k]]
  /\ UNCHANGED <<resultPages, isProcessing, error, userPrompt, runs>>

\* ------------------------------------------------------------ clear
\* The clear button is rendered whenever sourcePages.length > 0.
ClearButtonRendered == Len(sourcePages) > 0

\* Variant of clearImage that also cancels the suspended edit runs.
clearImage_AbortsRuns ==
  /\ ClearButtonRendered
  /\ sourcePages' = <<>>
  /\ sourceMimeType' = NullMime
  /\ resultPages' = <<>>
  /\ error' = NoError
  /\ runs' = <<>>
  /\ isProcessing' = FALSE
  /\ lastEvent' = Event("clear")
  /\ UNCHANGED <<isUploading, userPrompt, uploads>>

\* Variant of clearImage that leaves the error message in place.
clearImage_KeepsError ==
  /\ ClearButtonRendered
  /\ sourcePages' = <<>>
  /\ sourceMimeType' = NullMime
  /\ resultPages' = <<>>
  /\ lastEvent' = Event("clear")
  /\ UNCHANGED <<error, isProcessing, isUploading, userPrompt, uploads, runs>>

clearImage ==
  /\ ClearButtonRendered
  /\ sourcePages' = <<>>
  /\ sourceMimeType' = NullMime
  /\ resultPages' = <<>>
  /\ error' = NoError
  /\ lastEvent' = Event("clear")
  /\ UNCHANGED <<isProcessing, isUploading, userPrompt, uploads, runs>>

\* ------------------------------------------------------------ edit run
\* The request built for page i of the snapshot a processImage call closed
\* over: the page's base64 payload, sourceMimeType and the wrapped instruction.
EditRequest(src, mime, prompt, i) ==
  [page |-> i, data |-> Base64Of(src[i]), mimeType |-> mime, text |-> Trim(prompt)]

\* A suspended processImage call: the sourcePages, sourceMimeType and
\* userPrompt of the render whose button was clicked, the local results, the
\* requests issued so far and the number of responses received.
EditCall(src, mime, prompt) ==
  [src |-> src, mime |-> mime, prompt |-> prompt, results |-> <<>>,
   issued |-> <<>>, answered |-> 0]

\* Variant of IssueRequest that reads the instruction field as it is now.
IssueRequest_LivePrompt(run, i) ==
  [run EXCEPT !.issued = Append(@, EditRequest(run.src, run.mime, userPrompt, i))]

\* The call reaches ai.models.generateContent for page i and suspends.
IssueRequest(run, i) ==
  [run EXCEPT !.issued = Append(@, EditRequest(run.src, run.mime, run.prompt, i))]

\* Variant of StartButtonDisabled without the isProcessing test.
StartButtonDisabled_IgnoresProcessing ==
  Len(sourcePages) = 0 \/ Trim(userPrompt) = <<>>

\* Variant of StartButtonDisabled that tests the instruction without trimming.
StartButtonDisabled_NoTrim ==
  Len(sourcePages) = 0 \/ isProcessing \/ userPrompt = <<>>

\* disabled={sourcePages.length === 0 || isProcessing || !userPrompt.trim()}
StartButtonDisabled ==
  Len(sourcePages) = 0 \/ isProcessing \/ Trim(userPrompt) = <<>>

\* if (sourcePages.length === 0 || !sourceMimeType) return;
ProcessImageReturnsEarly ==
  Len(sourcePages) = 0 \/ sourceMimeType = NullMime \/ sourceMimeType = ""

\* Variant of EditCatch without the finally block that clears isProcessing.
EditCatch_NoFinally(k, run, m, outcome) ==
  /\ error' = EditCatchMsg(m)
  /\ isProcessing' = (k # 0 \/ isProcessing)
  /\ runs' = IF k = 0 THEN runs ELSE RemoveAt(runs, k)
  /\ lastEvent' = [op |-> "runEnd", outcome |-> outcome, run |-> run]

\* catch (err) { setError(err.message || ...) } finally { setIsProcessing(false) }
\* for the call at index k of runs (k = 0: the call has not suspended yet).
EditCatch(k, run, m, outcome) ==
  /\ error' = EditCatchMsg(m)
  /\ isProcessing' = FALSE
  /\ runs' = IF k = 0 THEN runs ELSE RemoveAt(runs, k)
  /\ lastEvent' = [op |-> "runEnd", outcome |-> outcome, run |-> run]

\* A click on the start button: nothing at all happens when the button is
\* disabled or processImage returns early; otherwise the flags are set and the
\* loop runs up to its first await (sourcePages[0].split throws on a null page).
processImage ==
  IF StartButtonDisabled \/ ProcessImageReturnsEarly
  THEN UNCHANGED vars
  ELSE /\ Len(runs) < MaxRuns
       /\ resultPages' = <<>>
       /\ UNCHANGED <<sourcePages, sourceMimeType, isUploading, userPrompt, uploads>>
       /\ IF sourcePages[1].null
          THEN EditCatch(0, EditCall(sourcePages, sourceMimeType, userPrompt),
                         RawMsg(TypeErrorMsg), "startThrow")
          ELSE /\ isProcessing' = TRUE
               /\ error' = NoError
               /\ runs' = Append(runs,
                     IssueRequest(EditCall(sourcePages, sourceMimeType, userPrompt), 1))
               /\ lastEvent' = Event("start")

\* Variant of OnResponse that publishes only the page just received
\* (setResultPages([imageUrl])).
OnResponse_PublishesLastOnly(k, response) ==
  /\ LET run == runs[k]
         i == run.answered + 1
         parsed == ParseResponse(response)
         results == Append(run.results, parsed.imageUrl)
         answeredRun == [run EXCEPT !.answered = i]
         publishedRun == [answeredRun EXCEPT !.results = results]
     IN /\ UNCHANGED <<sourcePages, sourceMimeType, isUploading, userPrompt, uploads>>
        /\ IF ~parsed.foundImage
           THEN /\ EditCatch(k, answeredRun,
                             PageErrorMsg(i, parsed.textResponse), "noImage")
                /\ UNCHANGED resultPages
           ELSE /\ resultPages' = << parsed.imageUrl >>
                /\ IF i + 1 <= Len(run.src)
                   THEN IF run.src[i + 1].null
                        THEN EditCatch(k, publishedRun, RawMsg(TypeErrorMsg), "thrown")
                        ELSE /\ runs' = [runs EXCEPT ![k] = IssueRequest(publishedRun, i + 1)]
                             /\ lastEvent' = Event("published")
                             /\ UNCHANGED <<isProcessing, error>>
                   ELSE /\ isProcessing' = FALSE
                        /\ runs' = RemoveAt(runs, k)
                        /\ lastEvent' = [op |-> "runEnd", outcome |-> "done",
                                         run |-> publishedRun]
                        /\ UNCHANGED error

\* The continuation of the call at index k after generateContent resolved
\* with response.
OnResponse(k, response) ==
  /\ LET run == runs[k]
         i == run.answered + 1
         parsed == ParseResponse(response)
         results == Append(run.results, parsed.imageUrl)
         answeredRun == [run EXCEPT !.answered = i]
         publishedRun == [answeredRun EXCEPT !.results = results]
     IN /\ UNCHANGED <<sourcePages, sourceMimeType, isUploading, userPrompt, uploads>>
        /\ IF ~parsed.foundImage
           THEN /\ EditCatch(k, answeredRun,
                             PageErrorMsg(i, parsed.textResponse), "noImage")
                /\ UNCHANGED resultPages
           ELSE /\ resultPages' = results
                /\ IF i + 1 <= Len(run.src)
                   THEN IF run.src[i + 1].null
                        THEN EditCatch(k, publishedRun, RawMsg(TypeErrorMsg), "thrown")
                        ELSE /\ runs' = [runs EXCEPT ![k] = IssueRequest(publishedRun, i + 1)]
                             /\ lastEvent' = Event("published")
                             /\ UNCHANGED <<isProcessing, error>>
                   ELSE /\ isProcessing' = FALSE
                        /\ runs' = RemoveAt(runs, k)
                        /\ lastEvent' = [op |-> "runEnd", outcome |-> "done",
                                         run |-> publishedRun]
                        /\ UNCHANGED error

\* generateContent resolves for the call at index k with one of the responses
\* the service can give to the outstanding request.
EditResponse(k) ==
  /\ k \in 1..Len(runs)
  /\ \E response \in ResponsesFor(runs[k].issued[runs[k].answered + 1]) :
        OnResponse(k, response)

\* generateContent rejects with message m for the call at index k.
EditThrow(k, m) ==
  /\ k \in 1..Len(runs)
  /\ EditCatch(k, [runs[k] EXCEPT !.answered = @ + 1], RawMsg(m), "thrown")
  /\ UNCHANGED <<sourcePages, sourceMimeType, resultPages, isUploading,
                 userPrompt, uploads>>

\* ------------------------------------------------------------ download
PngFileName == "cleaned_worksheet.png"
PdfFileName == "cleaned_document.pdf"

\* new jsPDF('p', 'mm', 'a4'): a document of one empty page; a page is the
\* sequence of images drawn on it.
NewPdf == << <<>> >>

\* pdf.addPage(): a new empty page becomes the current one.
AddPage(pdf) == Append(pdf, <<>>)

\* pdf.addImage(pageData, ...): the image is drawn on the current page.
AddImage(pdf, pageData) == [pdf EXCEPT ![Len(pdf)] = Append(@, pageData)]

\* Variant of AssemblePdf that adds a page before every image
\* (without the index > 0 test).
RECURSIVE AssemblePdf_AlwaysAddsPage(_, _, _)
AssemblePdf_AlwaysAddsPage(pdf, pages, index) ==
  IF index > Len(pages) THEN pdf
  ELSE AssemblePdf_AlwaysAddsPage(AddImage(AddPage(pdf), pages[index]), pages, index + 1)

\* resultPages.forEach((pageData, index) => { if (index > 0) pdf.addPage();
\* ... pdf.addImage(pageData, ...) }), index counted from 1 here.
RECURSIVE AssemblePdf(_, _, _)
AssemblePdf(pdf, pages, index) ==
  IF index > Len(pages) THEN pdf
  ELSE AssemblePdf(AddImage(IF index > 1 THEN AddPage(pdf) ELSE pdf, pages[index]),
                   pages, index + 1)

\* A click on the download button (rendered only when resultPages.length > 0;
\* downloadResult returns at once on an empty result): the saved file is
\* recorded in lastEvent, no state is set.
downloadResult ==
  IF Len(resultPages) = 0
  THEN UNCHANGED vars
  ELSE /\ lastEvent' =
            IF Len(resultPages) = 1
            THEN [op |-> "download", name |-> PngFileName, image |-> resultPages[1],
                  pdf |-> <<>>]
            ELSE [op |-> "download", name |-> PdfFileName, image |-> NullUrl,
                  pdf |-> AssemblePdf(NewPdf, resultPages, 1)]
       /\ UNCHANGED <<appState, uploads, runs>>

\* ------------------------------------------------------------ specification
Next ==
  \/ \E p \in Prompts : setUserPrompt(p)
  \/ \E file \in Files : handleImageUpload(file)
  \/ \E k \in 1..MaxUploads : UploadTimer(k)
  \/ \E k \in 1..MaxUploads : PdfArrayBuffer(k)
  \/ \E k \in 1..MaxUploads, n \in 1..MaxPages : PdfGetDocument(k, n)
  \/ \E k \in 1..MaxUploads, hasContext \in BOOLEAN : PdfGetPage(k, hasContext)
  \/ \E k \in 1..MaxUploads : PdfRender(k)
  \/ \E k \in 1..MaxUploads, m \in ErrMessages : PdfThrow(k, m)
  \/ \E k \in 1..MaxUploads, readOk \in BOOLEAN : ReaderLoadEnd(k, readOk)
  \/ clearImage
  \/ processImage
  \/ downloadResult
  \/ \E k \in 1..MaxRuns : EditResponse(k)
  \/ \E k \in 1..MaxRuns, m \in ErrMessages : EditThrow(k, m)

Spec == Init /\ [][Next]_vars

\* Some continuation of the suspended upload k runs: the timer fires, or the
\* promise or file read it awaits settles.
UploadSettles(k) ==
  \/ UploadTimer(k)
  \/ PdfArrayBuffer(k)
  \/ \E n \in 1..MaxPages : PdfGetDocument(k, n)
  \/ \E hasContext \in BOOLEAN : PdfGetPage(k, hasContext)
  \/ PdfRender(k)
  \/ \E m \in ErrMessages : PdfThrow(k, m)
  \/ \E readOk \in BOOLEAN : ReaderLoadEnd(k, readOk)

\* The request the suspended processImage call k awaits settles.
RequestSettles(k) ==
  \/ EditResponse(k)
  \/ \E m \in ErrMessages : EditThrow(k, m)

\* Every timer, file read, PDF step and remote request eventually settles and
\* the event loop runs its continuation.
Fairness ==
  /\ \A k \in 1..MaxUploads : WF_vars(UploadSettles(k))
  /\ \A k \in 1..MaxRuns : WF_vars(RequestSettles(k))

FairSpec == Spec /\ Fairness

\* ------------------------------------------------------------ response parsing
\* Parts of any response the service may give, whatever the request: inline
\* images with and without a mimeType, texts, and a text part whose text is
\* empty.
AnyParts ==
  { InlinePart("", <<7>>), InlinePart("image/jpeg", <<8>>),
    TextPart(<<"x">>), TextPart(<<"y">>), TextPart(<<>>) }

AnyResponses ==
  { [candidates |-> FALSE, parts |-> <<>>] } \cup
  { [candidates |-> TRUE, parts |-> ps] : ps \in SeqsUpTo(AnyParts, MaxScan) }

\* An edit run over a rendered PDF of n pages has just been started and awaits
\* the response for page 1.
ParseInit ==
  \E id \in 1..NumFiles, n \in 1..MaxPages :
    LET file == [id |-> id, size |-> MaxFileSize, type |-> PdfType]
        pages == [i \in 1..n |-> RenderedPage(file, i)]
        prompt == <<" ", "a", " ">>
    IN /\ sourcePages = pages
       /\ sourceMimeType = PngType
       /\ resultPages = <<>>
       /\ isProcessing = TRUE
       /\ isUploading = FALSE
       /\ error = NoError
       /\ userPrompt = prompt
       /\ uploads = <<>>
       /\ runs = << IssueRequest(EditCall(pages, PngType, prompt), 1) >>
       /\ lastEvent = Event("start")

\* generateContent resolves with an arbitrary response, which lastEvent holds
\* until the continuation runs.
GenerateContentResolves ==
  /\ Len(runs) = 1
  /\ lastEvent.op # "response"
  /\ \E response \in AnyResponses :
        lastEvent' = [op |-> "response", response |-> response]
  /\ UNCHANGED <<appState, uploads, runs>>

\* The loop body of processImage parses the response it was resumed with.
AnyEditResponse ==
  /\ Len(runs) = 1
  /\ lastEvent.op = "response"
  /\ OnResponse(1, lastEvent.response)

ParseNext == GenerateContentResolves \/ AnyEditResponse

ParseSpec == ParseInit /\ [][ParseNext]_vars

\* ------------------------------------------------------------ properties
\* result is the service's edit of the payload of source
IsEditOf(result, source) ==
  ~source.null /\ ~result.null /\ result.data = Edited(Base64Of(source))

RunEnded(outcome) == lastEvent.op = "runEnd" /\ lastEvent.outcome = outcome

RECURSIVE TotalOutstanding(_)
TotalOutstanding(rs) ==
  IF rs = <<>> THEN 0
  ELSE (Len(Head(rs).issued) - Head(rs).answered) + TotalOutstanding(Tail(rs))

\* C1: in every reachable state the number of published result pages is at
\* most the number of currently loaded source pages.
C1_ResultNotLongerThanSource == Len(resultPages) <= Len(sourcePages)

\* C2: in every reachable state each published result page at index i is the
\* edited output of the currently loaded source page at index i.
C2_ResultAlignedWithSource ==
  \A i \in 1..Len(resultPages) :
     i <= Len(sourcePages) /\ IsEditOf(resultPages[i], sourcePages[i])

\* C3: when an edit run on a K-page document ends after every page's response
\* contained an inline image, the result sequence has exactly K pages, page i
\* being the image returned for the request built from source page i, no error
\* is set and the processing flag is cleared.
C3_AllPagesSucceed ==
  RunEnded("done") =>
    LET run == lastEvent.run IN
      /\ Len(resultPages) = Len(run.src)
      /\ \A i \in 1..Len(run.src) :
           /\ run.issued[i].data = Base64Of(run.src[i])
           /\ i <= Len(resultPages)
           /\ IsEditOf(resultPages[i], run.src[i])
      /\ error = NoError
      /\ ~isProcessing

\* C4: when an edit run ends because page j is the first page whose response
\* has no inline image, the result sequence has length j-1 (the pages completed
\* before j), the error names page j, and no request was issued for a page
\* after j.
C4_FirstFailureAborts ==
  RunEnded("noImage") =>
    LET run == lastEvent.run
        j == run.answered
    IN /\ Len(resultPages) = j - 1
       /\ resultPages = run.results
       /\ error.kind = "page" /\ error.page = j
       /\ Len(run.issued) = j
       /\ \A n \in 1..Len(run.issued) : run.issued[n].page <= j
       /\ ~isProcessing

\* C5: the state immediately after clear has an empty source sequence, an
\* empty result sequence, a null MIME type and a null error.
C5_ClearResets ==
  lastEvent.op = "clear" =>
    /\ sourcePages = <<>>
    /\ resultPages = <<>>
    /\ sourceMimeType = NullMime
    /\ error = NoError

\* C5 witness: clear was pressed while an edit run is in flight.
C5_Witness == lastEvent.op = "clear" /\ runs # <<>> /\ isProcessing

\* C6: after a file larger than 100MB is selected, the size-limit error is set
\* and both the source sequence and the result sequence are empty.
C6_OversizeLeavesEmpty ==
  lastEvent.op = "reject" =>
    /\ lastEvent.size > MaxFileSize
    /\ error = SizeLimitMsg
    /\ sourcePages = <<>>
    /\ resultPages = <<>>

FileSelected == lastEvent'.op \in {"reject", "upload"}

\* C7 (as stated): selecting a file larger than 100MB changes none of source
\* pages, MIME type, result pages, error, uploading flag and processing flag,
\* while a file of exactly 100MB is accepted and starts an upload.
C7_OversizeMutatesNothing ==
  [][FileSelected =>
       IF lastEvent'.size > MaxFileSize
       THEN UNCHANGED <<sourcePages, sourceMimeType, resultPages, error,
                        isUploading, isProcessing>>
       ELSE lastEvent'.op = "upload" /\ isUploading' /\ Len(uploads') = Len(uploads) + 1]_vars

\* C7 (amended): selecting a file larger than 100MB sets the error to the
\* size-limit message and changes none of source pages, MIME type, result
\* pages, uploading flag and processing flag, while a file of exactly 100MB is
\* accepted and starts an upload.
C7_OversizeOnlySetsError ==
  [][FileSelected =>
       IF lastEvent'.size > MaxFileSize
       THEN /\ lastEvent'.op = "reject"
            /\ error' = SizeLimitMsg
            /\ UNCHANGED <<sourcePages, sourceMimeType, resultPages,
                           isUploading, isProcessing>>
       ELSE lastEvent'.op = "upload" /\ isUploading' /\ Len(uploads') = Len(uploads) + 1]_vars

\* C7 witness: an oversized file was rejected while an edit run is in flight
\* and results are published.
C7_Witness ==
  /\ lastEvent.op = "reject"
  /\ error = SizeLimitMsg
  /\ isProcessing
  /\ resultPages # <<>>

\* C8: at most one edit request is outstanding in every reachable state, and
\* each run issues its requests for pages 1, 2, ... in order, the request for
\* the next page only after the response for the previous one.
C8_OneRequestInFlight ==
  /\ TotalOutstanding(runs) <= 1
  /\ \A k \in 1..Len(runs) :
       /\ Len(runs[k].issued) <= runs[k].answered + 1
       /\ \A n \in 1..Len(runs[k].issued) :
            /\ runs[k].issued[n].page = n
            /\ runs[k].issued[n].data = Base64Of(runs[k].src[n])

\* C8 witness: while a run of an earlier document awaits the response for its
\* second page, another document has been loaded after a clear and an
\* instruction is present, so only isProcessing keeps the start button disabled.
C8_Witness ==
  /\ StartButtonDisabled
  /\ Len(runs) = 1
  /\ Len(runs[1].issued) = 2 /\ runs[1].answered = 1
  /\ sourcePages # <<>> /\ sourcePages # runs[1].src
  /\ Trim(userPrompt) # <<>>

RunStarted ==
  \/ lastEvent'.op = "start"
  \/ lastEvent'.op = "runEnd" /\ lastEvent'.outcome = "startThrow"
  \/ Len(runs') > Len(runs)

\* C9: start-edit begins an edit run only from a state with a non-empty source
\* sequence, a non-empty trimmed instruction and no edit run in flight; a click
\* in any other state issues no request and changes no state.
C9_StartOnlyWhenEnabled ==
  [][/\ RunStarted =>
          /\ Len(sourcePages) > 0
          /\ Trim(userPrompt) # <<>>
          /\ runs = <<>> /\ ~isProcessing
     /\ processImage /\ (StartButtonDisabled \/ ProcessImageReturnsEarly) =>
          UNCHANGED <<appState, uploads, runs>>]_vars

\* C9 witness: a run has just been started and its first request is out.
C9_Witness ==
  /\ lastEvent.op = "start"
  /\ Len(runs) = 1
  /\ Len(runs[1].issued) = 1 /\ runs[1].answered = 0
  /\ isProcessing

\* C10: the uploading flag is true exactly while an accepted upload is in
\* progress, and at most one upload is in progress.
C10_SingleUpload ==
  /\ isUploading <=> uploads # <<>>
  /\ Len(uploads) <= 1

\* C10 witness: an upload is rendering a PDF page while the flag is set and a
\* run of the previous document is still in flight.
C10_Witness ==
  /\ isUploading
  /\ Len(uploads) = 1 /\ uploads[1].pc = "render"
  /\ runs # <<>>

\* An upload or an edit run is suspended.
Busy == isUploading \/ isProcessing \/ uploads # <<>> \/ runs # <<>>

\* C11: while an upload is in progress or an edit run is in flight, the
\* controls that trigger upload, start edit and clear are all disabled.
C11_ControlsDisabledWhileBusy ==
  Busy =>
    /\ ~(DropTargetRendered /\ DropTargetClickable)
    /\ StartButtonDisabled
    /\ ~ClearButtonRendered

UploadEnded(ok) == lastEvent.op = "uploadEnd" /\ lastEvent.ok = ok

\* C12: a successful upload of an N-page PDF publishes exactly N source pages,
\* the rendering of pages 1..N in order, with MIME type image/png; a successful
\* upload of a non-PDF image publishes exactly one source page, the file's data
\* URL, with the MIME type of the file.
C12_UploadPublishesPages ==
  UploadEnded(TRUE) =>
    LET call == lastEvent.call IN
      IF call.file.type = PdfType
      THEN /\ Len(sourcePages) = call.numPages
           /\ \A i \in 1..call.numPages : sourcePages[i] = RenderedPage(call.file, i)
           /\ sourceMimeType = PngType
      ELSE /\ sourcePages = << ReadDataUrl(call.file) >>
           /\ sourceMimeType = call.file.type

\* C12 witness: a PDF of two pages has just been published.
C12_Witness ==
  /\ UploadEnded(TRUE)
  /\ lastEvent.call.file.type = PdfType
  /\ lastEvent.call.numPages = 2
  /\ Len(sourcePages) = 2

\* C13: when decoding or rendering a PDF fails, at any page or before the page
\* count is known, the upload ends with an empty source sequence, an error
\* message and the uploading flag cleared.
C13_PdfFailureDiscardsPages ==
  UploadEnded(FALSE) /\ lastEvent.call.file.type = PdfType =>
    /\ sourcePages = <<>>
    /\ error.kind = "pdf"
    /\ ~isUploading

\* C13 witness: the failure came at page 2, after page 1 had been rasterized.
C13_Witness ==
  /\ UploadEnded(FALSE)
  /\ lastEvent.call.file.type = PdfType
  /\ lastEvent.call.i = 2
  /\ Len(lastEvent.call.pages) = 1
  /\ sourcePages = <<>>

\* C14: when reading a non-PDF image file fails, the upload ends with an empty
\* source sequence and an error set; no source page is published.
C14_ImageReadFailureAborts ==
  UploadEnded(FALSE) /\ lastEvent.call.file.type # PdfType =>
    /\ sourcePages = <<>>
    /\ error # NoError

\* The last step was a failure: a rejected file, a failed upload, or an edit
\* run ended by a refusal or a thrown error.
Failed ==
  \/ lastEvent.op = "reject"
  \/ UploadEnded(FALSE)
  \/ lastEvent.op = "runEnd" /\ lastEvent.outcome # "done"

Interactive == ~isUploading /\ ~isProcessing

\* C15: provided every file read, PDF step and remote request settles, every
\* failure is followed by a state in which neither the uploading flag nor the
\* processing flag is set.
C15_FailureLeadsToInteractive == Failed ~> Interactive

\* C15 witness: a PDF upload has just failed while an edit run is in flight.
C15_Witness ==
  /\ UploadEnded(FALSE)
  /\ lastEvent.call.file.type = PdfType
  /\ isProcessing /\ runs # <<>>

UserAction == lastEvent'.op \in {"clear", "upload", "reject", "prompt"}

\* C16: no user action (clear, upload, instruction edit) aborts or alters an
\* edit run in flight; a run leaves only by its own response (all pages done,
\* a refusal, a thrown error), and after each successful response for a page
\* before the last one it issues the request for the next page of the snapshot
\* it started on.
C16_RunNotAbortedByUser ==
  [][/\ UserAction => runs' = runs
     /\ Len(runs') < Len(runs) => lastEvent'.op = "runEnd"
     /\ lastEvent'.op = "published" =>
          \A k \in 1..Len(runs) :
             runs'[k] # runs[k] =>
               LET i == runs[k].answered + 1 IN
                 /\ i < Len(runs[k].src)
                 /\ runs'[k].src = runs[k].src
                 /\ Len(runs'[k].issued) = i + 1
                 /\ runs'[k].issued[i + 1].page = i + 1
                 /\ runs'[k].issued[i + 1].data = Base64Of(runs[k].src[i + 1])
     /\ lastEvent'.op = "runEnd" /\ lastEvent'.outcome = "done" =>
          lastEvent'.run.answered = Len(lastEvent'.run.src)]_vars

\* C16 witness: a run has issued the request for page 2 of its snapshot after
\* the document it started on was cleared.
C16_Witness ==
  /\ lastEvent.op = "published"
  /\ Len(runs) = 1
  /\ Len(runs[1].issued) = 2
  /\ sourcePages = <<>>

\* C17: every request of an edit run carries the trimmed instruction as it was
\* when the run was started, whatever the instruction field holds later.
C17_SameInstructionForEveryPage ==
  [][/\ lastEvent'.op = "start" =>
          LET run == runs'[Len(runs')] IN
            /\ run.prompt = userPrompt
            /\ \A n \in 1..Len(run.issued) : run.issued[n].text = Trim(userPrompt)
     /\ lastEvent'.op = "published" =>
          \A k \in 1..Len(runs) :
             /\ runs'[k].prompt = runs[k].prompt
             /\ \A n \in 1..Len(runs'[k].issued) :
                  runs'[k].issued[n].text = Trim(runs[k].prompt)]_vars

\* C17 witness: the request for page 2 is out, carrying the instruction of the
\* start, while the instruction field now trims to another text.
C17_Witness ==
  /\ Len(runs) = 1
  /\ Len(runs[1].issued) = 2
  /\ runs[1].issued[2].text = runs[1].issued[1].text
  /\ runs[1].issued[2].text = Trim(runs[1].prompt)
  /\ Trim(userPrompt) # runs[1].issued[2].text

\* C18: in an edit run whose steps follow one another directly, the progress
\* count shown (the length of the result sequence) equals the number of pages
\* completed, each successful response publishes the previous result sequence
\* extended by exactly one page, and a failing response leaves it as it is.
C18_ResultsGrowByOne ==
  [][lastEvent.op \in {"start", "published"} /\ Len(runs) = 1 /\
     lastEvent'.op \in {"published", "runEnd"} =>
       LET run == runs[1]
           succeeded == lastEvent'.op = "published" \/ lastEvent'.outcome = "done"
       IN /\ Len(resultPages) = run.answered
          /\ resultPages = run.results
          /\ IF succeeded
             THEN /\ Len(resultPages') = Len(resultPages) + 1
                  /\ SubSeq(resultPages', 1, Len(resultPages)) = resultPages
                  /\ IsEditOf(resultPages'[Len(resultPages')], run.src[run.answered + 1])
             ELSE resultPages' = resultPages]_vars

\* C18 witness: page 1 of a loaded two-page document has been published and
\* the run goes on (progress 1/2).
C18_Witness ==
  /\ lastEvent.op = "published"
  /\ Len(runs) = 1
  /\ runs[1].src = sourcePages
  /\ Len(sourcePages) = 2
  /\ Len(resultPages) = 1

\* C19: in every reachable state with a non-empty source sequence and a result
\* sequence of the same length, no edit run is in flight (no request is
\* outstanding, the processing flag is down) and no error is set.
C19_EqualLengthsMeanDone ==
  Len(sourcePages) > 0 /\ Len(resultPages) = Len(sourcePages) =>
    /\ runs = <<>> /\ ~isProcessing
    /\ error = NoError

\* C20: download takes its output from the current result sequence only: one
\* result page gives the image file cleaned_worksheet.png holding that page,
\* n >= 2 result pages give cleaned_document.pdf of exactly n pages, page i
\* showing result page i, no result page gives nothing; source, result, error
\* and the busy flags are left unchanged.
C20_DownloadFollowsResults ==
  [][/\ lastEvent'.op = "download" =>
          /\ UNCHANGED <<appState, uploads, runs>>
          /\ Len(resultPages) >= 1
          /\ IF Len(resultPages) = 1
             THEN /\ lastEvent'.name = PngFileName
                  /\ lastEvent'.image = resultPages[1]
             ELSE /\ lastEvent'.name = PdfFileName
                  /\ Len(lastEvent'.pdf) = Len(resultPages)
                  /\ \A i \in 1..Len(resultPages) :
                       lastEvent'.pdf[i] = << resultPages[i] >>
     /\ downloadResult /\ Len(resultPages) = 0 => UNCHANGED vars]_vars

\* C20 witness: a two-page result has just been saved as a PDF.
C20_Witness ==
  /\ lastEvent.op = "download"
  /\ lastEvent.name = PdfFileName
  /\ Len(resultPages) = 2
  /\ Len(lastEvent.pdf) = 2

\* the parts of a response (none without candidates[0].content.parts)
PartsOf(response) == IF response.candidates THEN response.parts ELSE <<>>

InlineIndexes(parts) == { j \in 1..Len(parts) : parts[j].kind = "inlineData" }

FirstInline(parts) ==
  CHOOSE j \in InlineIndexes(parts) : \A l \in InlineIndexes(parts) : j <= l

\* the texts of all text parts, in order
RECURSIVE ConcatTexts(_)
ConcatTexts(parts) ==
  IF parts = <<>> THEN <<>>
  ELSE (IF Head(parts).kind = "text" THEN Head(parts).text ELSE <<>>)
       \o ConcatTexts(Tail(parts))

\* t occurs in s as a contiguous piece
Contains(s, t) ==
  \E j \in 1..(Len(s) + 1) :
     j + Len(t) - 1 <= Len(s) /\ SubSeq(s, j, j + Len(t) - 1) = t

\* C21: for every response, a sequence of inline-image and text parts, the
\* page result is the first inline-image part whatever follows it; without an
\* inline-image part (or without candidates or parts) the page fails and the
\* error message contains the concatenation, in order, of all text parts.
C21_FirstImageOrDiagnostic ==
  [][lastEvent.op = "response" =>
         LET parts == PartsOf(lastEvent.response)
             i == runs[1].answered + 1
         IN IF InlineIndexes(parts) # {}
            THEN LET part == parts[FirstInline(parts)] IN
                   /\ Len(resultPages') = i
                   /\ SubSeq(resultPages', 1, i - 1) = runs[1].results
                   /\ ~resultPages'[i].null
                   /\ resultPages'[i].data = part.data
                   /\ part.mimeType # "" => resultPages'[i].mime = part.mimeType
                   /\ error' = error
            ELSE /\ resultPages' = resultPages
                 /\ error'.kind = "page" /\ error'.page = i
                 /\ Contains(error'.text, ConcatTexts(parts))
                 /\ ~isProcessing' /\ runs' = <<>>]_vars

\* C21 witness: page 1 took the image of a response and page 2 failed on a
\* response of two text parts, whose texts the error shows in order.
C21_Witness ==
  /\ RunEnded("noImage")
  /\ Len(resultPages) = 1 /\ resultPages[1].mime = "image/jpeg"
  /\ error.kind = "page" /\ error.page = 2
  /\ error.text = <<"x", "y">>

\* C22: a failed edit run leaves no request behind and none is issued until
\* the user clicks start; a click on the enabled start button right after an
\* edit run has ended (failed or done) clears the error, empties the result
\* sequence and issues the request for page 1 of the loaded document.
C22_NoRetryRestartFromPageOne ==
  [][/\ lastEvent'.op = "runEnd" /\ lastEvent'.outcome # "done" => runs' = <<>>
     /\ runs = <<>> /\ runs' # <<>> => processImage /\ ~StartButtonDisabled
     /\ /\ lastEvent.op = "runEnd"
        /\ processImage
        /\ ~(StartButtonDisabled \/ ProcessImageReturnsEarly)
        => /\ error' = NoError
           /\ resultPages' = <<>>
           /\ Len(runs') = 1
           /\ runs'[1].answered = 0 /\ runs'[1].results = <<>>
           /\ runs'[1].issued =
                << EditRequest(sourcePages, sourceMimeType, userPrompt, 1) >>]_vars

====
